---- MODULE Spec2Model ----
(***************************************************************************)
(* Model of the authentication and resilient-request core of the Reaudit   *)
(* MCP server: the error classifier and retry executor (error-handler),    *)
(* the token lifecycle manager (OAuthClient.getAccessToken / refreshToken),*)
(* the token store, and the API client facade (ReauditAPIClient.request).  *)
(*                                                                         *)
(* Asynchronous functions are split at their await points: one action per  *)
(* synchronous run of code between two awaits.                             *)
(***************************************************************************)
EXTENDS Integers, Sequences, FiniteSets, TLC

VARIABLES
    pc,                \* position of the withRetry / request() call
    cfg,               \* fullConfig of the running withRetry call
    attempt,           \* withRetry: loop counter
    lastError,         \* withRetry: lastError (MCPError) or NoError
    delay,             \* withRetry: delay computed for the pending wait (ms)
    result,            \* outcome of the call once pc = "done"
    fnCalls,           \* number of invocations of fn by withRetry
    thrown,            \* history: the errors thrown by fn, in order
    nowMs,             \* Date.now()
    ticks,             \* number of Tick steps taken so far
    store,             \* content of the credentials file (NoTokens when absent)
    nextTok,           \* serial of the next token pair the server issues
    gatPc,             \* getAccessToken: position, per caller
    gatTokens,         \* getAccessToken: local `tokens`, per caller
    gatResult,         \* getAccessToken: returned token or thrown error
    gatPath,           \* getAccessToken: history, branch taken by the call
    gatResp,           \* getAccessToken: history, last refresh response
    accessToken,       \* request(): local accessToken of the running fn
    newToken,          \* request(): local newToken of the running fn
    httpCount,         \* history: API requests issued by the call
    replayCount,       \* history: 401 replays issued by the call
    refreshCount,      \* history: refresh-grant requests issued
    authCount,         \* history: authenticate() invocations
    gatCalls,          \* history: getAccessToken() invocations
    firstStatus,       \* history: response to the first API request of the call
    lastReplayStatus,  \* history: response to the latest replay (NoStatus if none)
    au,                \* authenticate(): state of each attempt
    crashed,           \* the process died of an uncaught exception
    dcalc,             \* calculateRetryDelay: arguments and result of a call
    pcalc,             \* parseError: argument and result of a call
    credFile,          \* token store: content of credentials.json
    machineId,         \* token store: os.hostname() + os.userInfo().username
    loaded,            \* token store: result of the latest loadTokens()
    saved,             \* token store: history, the latest saveTokens() call
    ecalc,             \* isAccessTokenExpired: arguments and result of a call
    lo,                \* logout(): position, locals and outcome of the call
    authed,            \* isAuthenticated(): result of the latest call since
                       \* logout() last ran
    activeOperations,  \* progress tracker: the activeOperations map
    wp,                \* withProgress: position of the call, per operation
    cleanups,          \* progress tracker: pending 60 s delete timers
    pendingConfirmations, \* confirmation: the pendingConfirmations map
    confNow,           \* confirmation: Date.now()
    issued,            \* history: times each token was handed out
    accepted,          \* history: times each token was found valid
    vcall              \* validateConfirmation: arguments and result of the
                       \* call just made, with the token's history at the
                       \* call (NoValidateCall after any other step)

vars == <<pc, cfg, attempt, lastError, delay, result, fnCalls, thrown, nowMs,
          ticks, store, nextTok, gatPc, gatTokens, gatResult, gatPath, gatResp,
          accessToken, newToken, httpCount, replayCount, refreshCount,
          authCount, gatCalls, firstStatus, lastReplayStatus, au, crashed,
          dcalc, pcalc, credFile, machineId, loaded, saved, ecalc,
          lo, authed, activeOperations, wp, cleanups, pendingConfirmations,
          confNow, issued, accepted, vcall>>

retryVars == <<pc, cfg, attempt, lastError, delay, result, fnCalls, thrown>>
gatVars == <<store, nextTok, gatPc, gatTokens, gatResult, gatPath, gatResp,
             refreshCount, authCount, gatCalls>>
facadeVars == <<accessToken, newToken, httpCount, replayCount, firstStatus,
                lastReplayStatus>>
flowVars == <<au, crashed>>
expVars == <<ecalc>>
logoutVars == <<lo, authed>>
trackerVars == <<activeOperations, wp, cleanups>>
confVars == <<pendingConfirmations, confNow, issued, accepted, vcall>>
extraVars == <<expVars, logoutVars, trackerVars, confVars>>
calcVars == <<dcalc, pcalc>>
fileVars == <<credFile, machineId, loaded, saved>>

\* the variables the request() and withRetry specifications leave alone
otherVars == <<flowVars, calcVars, fileVars, extraVars>>

----------------------------------------------------------------------------
(* Bounds of the model *)

MaxTok == 3            \* token pairs the server may issue in one behaviour
MaxTicks == 1          \* Tick steps in one behaviour
MaxRetriesCfg == 2     \* largest maxRetries of a caller-supplied RetryConfig

----------------------------------------------------------------------------
(* JavaScript values *)

\* `undefined` for an optional number, and a defined number
Undefined == [def |-> FALSE, val |-> 0]
Num(n) == [def |-> TRUE, val |-> n]

\* truthiness of an optional number (undefined and 0 are falsy)
Truthy(x) == x.def /\ x.val # 0

\* a || b on optional numbers
OrElse(a, b) == IF Truthy(a) THEN a ELSE b

\* Math.ceil(n / d) for d > 0
Ceil(n, d) == -((-n) \div d)

\* Math.round(n / d) for d > 0: floor(n/d + 1/2)
Round(n, d) == (2 * n + d) \div (2 * d)

Min(a, b) == IF a < b THEN a ELSE b

RECURSIVE Pow2(_)
Pow2(k) == IF k = 0 THEN 1 ELSE 2 * Pow2(k - 1)

----------------------------------------------------------------------------
(* Error Classifier *)

ErrorCategory == {"authentication", "authorization", "rate_limit", "not_found",
                  "validation", "server", "network", "unknown"}

\* Retry-After header of a response
NoHeader == [kind |-> "absent", val |-> 0]

\* a thrown AxiosError; status 0 stands for "no response received"
AxiosError(status, hdr) ==
    [type |-> "AxiosError", status |-> status, hdr |-> hdr, msg |-> "axios",
     id |-> 0]

\* a thrown plain Error with the given message
PlainError(msg) ==
    [type |-> "Error", status |-> 0, hdr |-> NoHeader, msg |-> msg, id |-> 0]

\* a thrown value that is not an Error instance
NonError == [type |-> "NonError", status |-> 0, hdr |-> NoHeader,
             msg |-> "value", id |-> 0]

NoError == [category |-> "none", retryable |-> FALSE, retryAfter |-> Undefined,
            originalError |-> NonError]

categorizeHttpError(status) ==
    CASE status = 401 -> "authentication"
      [] status = 403 -> "authorization"
      [] status = 404 -> "not_found"
      [] status \in {422, 400} -> "validation"
      [] status = 429 -> "rate_limit"
      [] status \in {500, 502, 503, 504} -> "server"
      [] OTHER -> "unknown"

isRetryableAll(category) == TRUE

isRetryable(category) == category \in {"rate_limit", "server", "network"}

\* the Retry-After value read from a 429 response at time `now`
headerRetryAfter(hdr, now) ==
    CASE hdr.kind = "absent" -> Undefined
      [] hdr.kind = "secs" -> Num(hdr.val)
      [] hdr.kind = "date" -> Num(Ceil(hdr.val - now, 1000))
      [] OTHER -> Undefined

parseError(error, now) ==
    IF error.type = "AxiosError" THEN
        IF error.status = 0 THEN
            [category |-> "network", retryable |-> TRUE,
             retryAfter |-> Num(5), originalError |-> error]
        ELSE
            LET category == categorizeHttpError(error.status)
                retryAfter == IF category = "rate_limit"
                              THEN headerRetryAfter(error.hdr, now)
                              ELSE Undefined
            IN  [category |-> category,
                 retryable |-> isRetryable(category),
                 retryAfter |-> OrElse(retryAfter,
                                       IF isRetryable(category) THEN Num(30)
                                       ELSE Undefined),
                 originalError |-> error]
    ELSE
        [category |-> "unknown", retryable |-> FALSE,
         retryAfter |-> Undefined, originalError |-> error]

\* new Error(formatErrorForUser(parsed)): the wrapped, user-facing error
formatErrorForUser(parsed) == PlainError("formatted")

----------------------------------------------------------------------------
(* Retry configuration and backoff *)

DEFAULT_RETRY_CONFIG ==
    [maxRetries |-> 3, baseDelay |-> 1000, maxDelay |-> 30000,
     retryableCategories |-> {"rate_limit", "server", "network"}]

\* Math.random() sampled as k / RandomDen, k in 0 .. RandomDen - 1
RandomDen == 4
RandomSamples == 0 .. (RandomDen - 1)

\* calculateRetryDelay with Math.random() = k / RandomDen
calculateRetryDelayWideJitter(att, config, k) ==
    LET d == Min(config.baseDelay * Pow2(att), config.maxDelay)
    IN  Round(d * 10 * RandomDen + 3 * d * (2 * k - RandomDen), 10 * RandomDen)

calculateRetryDelay(att, config, k) ==
    LET d == Min(config.baseDelay * Pow2(att), config.maxDelay)
    IN  Round(d * 10 * RandomDen + d * (2 * k - RandomDen), 10 * RandomDen)

----------------------------------------------------------------------------
(* Token Store *)

BufferMs == 5 * 60 * 1000

\* token strings issued by the server, by serial number
AccessTok(n) == [kind |-> "access", n |-> n]
RefreshTok(n) == [kind |-> "refresh", n |-> n]
NoToken == [kind |-> "none", n |-> 0]

\* the credentials file: <<>> when no record is loadable, else <<record>>
NoTokens == <<>>

loadTokens(file) == file

saveTokens(record) == <<record>>

clearTokens == NoTokens

isAccessTokenExpired(file, now) ==
    LET tokens == loadTokens(file)
    IN  IF tokens = NoTokens THEN TRUE
        ELSE now >= (tokens[1].expiresAt * 1000) - BufferMs

----------------------------------------------------------------------------
(* Token Lifecycle Manager: OAuthClient.getAccessToken *)

Callers == {1, 2}

ExpiresIn == {60, 3600}

\* the token endpoint's response carrying token pair number n
TokenResponse(n, expiresIn) ==
    [access_token |-> AccessTok(n), refresh_token |-> RefreshTok(n),
     expires_in |-> expiresIn, scope |-> "full_access"]

NoResponse == [access_token |-> NoToken, refresh_token |-> NoToken,
               expires_in |-> 0, scope |-> "none"]

\* the record saved from a token response received at time `now`
NewRecordCopyAccess(resp, now) ==
    [accessToken |-> resp.access_token,
     refreshToken |-> resp.access_token,
     expiresAt |-> (now \div 1000) + resp.expires_in,
     scope |-> resp.scope]

NewRecord(resp, now) ==
    [accessToken |-> resp.access_token,
     refreshToken |-> resp.refresh_token,
     expiresAt |-> (now \div 1000) + resp.expires_in,
     scope |-> resp.scope]

Returned(token) == [token |-> token, error |-> NonError]
Threw(error) == [token |-> NoToken, error |-> error]

\* the branch getAccessToken takes on the credentials file
GatBranchAlwaysRefresh(file, now) ==
    IF loadTokens(file) # NoTokens THEN "refresh" ELSE "auth"

GatBranch(file, now) ==
    IF loadTokens(file) # NoTokens
    THEN IF ~isAccessTokenExpired(file, now) THEN "cached" ELSE "refresh"
    ELSE "auth"

\* getAccessToken() up to its first await (or its immediate return)
GatCall(c) ==
    LET tokens == loadTokens(store)
        branch == GatBranch(store, nowMs)
    IN  /\ gatPc[c] = "idle"
        /\ gatCalls' = gatCalls + 1
        /\ gatTokens' = [gatTokens EXCEPT ![c] = tokens]
        /\ gatPath' = [gatPath EXCEPT ![c] = branch]
        /\ gatResp' = [gatResp EXCEPT ![c] = NoResponse]
        /\ CASE branch = "cached" ->
                  /\ gatPc' = [gatPc EXCEPT ![c] = "returned"]
                  /\ gatResult' = [gatResult EXCEPT
                                     ![c] = Returned(tokens[1].accessToken)]
                  /\ UNCHANGED <<refreshCount, authCount>>
             [] branch = "refresh" ->
                  /\ gatPc' = [gatPc EXCEPT ![c] = "refreshing"]
                  /\ refreshCount' = refreshCount + 1
                  /\ UNCHANGED <<gatResult, authCount>>
             [] OTHER ->
                  /\ gatPc' = [gatPc EXCEPT ![c] = "authenticating"]
                  /\ authCount' = authCount + 1
                  /\ UNCHANGED <<gatResult, refreshCount>>
        /\ UNCHANGED <<store, nextTok>>

\* what getAccessToken does when the refresh request has failed
CatchRefreshPropagate(c) ==
    /\ gatPc' = [gatPc EXCEPT ![c] = "threw"]
    /\ gatResult' = [gatResult EXCEPT ![c] = Threw(AxiosError(400, NoHeader))]
    /\ UNCHANGED <<store, authCount>>

CatchRefresh(c) ==
    /\ store' = clearTokens
    /\ authCount' = authCount + 1
    /\ gatPc' = [gatPc EXCEPT ![c] = "authenticating"]
    /\ UNCHANGED gatResult

\* refreshToken(): the refresh grant succeeded
RefreshOk(c) ==
    /\ gatPc[c] = "refreshing"
    /\ nextTok <= MaxTok
    /\ \E e \in ExpiresIn :
         LET resp == TokenResponse(nextTok, e)
         IN  /\ store' = saveTokens(NewRecord(resp, nowMs))
             /\ gatResp' = [gatResp EXCEPT ![c] = resp]
             /\ gatResult' = [gatResult EXCEPT
                                ![c] = Returned(resp.access_token)]
    /\ nextTok' = nextTok + 1
    /\ gatPc' = [gatPc EXCEPT ![c] = "returned"]
    /\ gatPath' = [gatPath EXCEPT ![c] = "refreshed"]
    /\ UNCHANGED <<gatTokens, refreshCount, authCount, gatCalls>>
    /\ UNCHANGED <<retryVars, facadeVars, nowMs, ticks>>
    /\ UNCHANGED otherVars

\* refreshToken(): the refresh grant failed; getAccessToken catches it
RefreshFail(c) ==
    /\ gatPc[c] = "refreshing"
    /\ CatchRefresh(c)
    /\ gatPath' = [gatPath EXCEPT ![c] = "refresh_failed"]
    /\ UNCHANGED <<nextTok, gatTokens, gatResp, refreshCount, gatCalls>>
    /\ UNCHANGED <<retryVars, facadeVars, nowMs, ticks>>
    /\ UNCHANGED otherVars

\* authenticate() resolved: code exchanged, tokens saved
AuthOk(c) ==
    /\ gatPc[c] = "authenticating"
    /\ nextTok <= MaxTok
    /\ \E e \in ExpiresIn :
         LET resp == TokenResponse(nextTok, e)
         IN  /\ store' = saveTokens(NewRecord(resp, nowMs))
             /\ gatResult' = [gatResult EXCEPT
                                ![c] = Returned(resp.access_token)]
    /\ nextTok' = nextTok + 1
    /\ gatPc' = [gatPc EXCEPT ![c] = "returned"]
    /\ UNCHANGED <<gatTokens, gatPath, gatResp, refreshCount, authCount,
                   gatCalls>>
    /\ UNCHANGED <<retryVars, facadeVars, nowMs, ticks>>
    /\ UNCHANGED otherVars

\* the errors authenticate() rejects with: OAuth error, state mismatch and
\* timeout are plain Errors, a failed code exchange is the AxiosError itself
AuthErrors ==
    {PlainError("oauth")} \cup {AxiosError(s, NoHeader) : s \in {0, 400, 500}}

\* authenticate() rejected
AuthFail(c) ==
    /\ gatPc[c] = "authenticating"
    /\ \E err \in AuthErrors :
         gatResult' = [gatResult EXCEPT ![c] = Threw(err)]
    /\ gatPc' = [gatPc EXCEPT ![c] = "threw"]
    /\ UNCHANGED <<store, nextTok, gatTokens, gatPath, gatResp, refreshCount,
                   authCount, gatCalls>>
    /\ UNCHANGED <<retryVars, facadeVars, nowMs, ticks>>
    /\ UNCHANGED otherVars

----------------------------------------------------------------------------
(* Resilient Request Executor: withRetry *)

Max(a, b) == IF a > b THEN a ELSE b

\* the guard of the `throw error` in the catch block of withRetry
GiveUpOnlyBudget(parsed, att, config) == att = config.maxRetries

GiveUp(parsed, att, config) ==
    \/ ~parsed.retryable
    \/ parsed.category \notin config.retryableCategories
    \/ att = config.maxRetries

\* what the catch block throws when it gives up on `error`
RethrownWrapped(error, parsed) == PlainError("formatted")

Rethrown(error, parsed) == error

\* the wait before the next attempt
RetryDelayBackoffOnly(parsed, att, config, k) ==
    calculateRetryDelay(att, config, k)

RetryDelay(parsed, att, config, k) ==
    IF Truthy(parsed.retryAfter)
    THEN parsed.retryAfter.val * 1000
    ELSE calculateRetryDelay(att, config, k)

Ok == [kind |-> "ok", error |-> NonError]
Failed(error) == [kind |-> "threw", error |-> error]
Pending == [kind |-> "pending", error |-> NonError]

\* fn returned: withRetry returns its value
Return ==
    /\ pc' = "done"
    /\ result' = Ok
    /\ UNCHANGED <<cfg, attempt, lastError, delay, fnCalls, thrown>>

\* fn threw `error`: the catch block of withRetry
Catch(error) ==
    LET e == [error EXCEPT !.id = fnCalls]
        parsed == parseError(e, nowMs)
    IN  /\ thrown' = Append(thrown, e)
        /\ lastError' = parsed
        /\ IF GiveUp(parsed, attempt, cfg)
           THEN /\ pc' = "done"
                /\ result' = Failed(Rethrown(e, parsed))
                /\ UNCHANGED delay
           ELSE /\ pc' = "wait"
                /\ \E k \in RandomSamples :
                     delay' = RetryDelay(parsed, attempt, cfg, k)
                /\ UNCHANGED result
        /\ UNCHANGED <<cfg, attempt, fnCalls>>

\* the retry timer fired: attempt++ and the loop test
WaitDone ==
    /\ pc = "wait"
    /\ attempt' = attempt + 1
    /\ nowMs' = nowMs + Max(delay, 0)
    /\ IF attempt + 1 <= cfg.maxRetries
       THEN /\ pc' = "fn"
            /\ UNCHANGED result
       ELSE /\ pc' = "done"
            /\ result' = Failed(IF lastError.originalError.type = "NonError"
                                THEN PlainError("Retry failed")
                                ELSE lastError.originalError)
    /\ UNCHANGED <<cfg, lastError, delay, fnCalls, thrown, ticks>>
    /\ UNCHANGED <<gatVars, facadeVars>>
    /\ UNCHANGED otherVars

\* time passes while the call is suspended
Tick ==
    /\ pc # "done"
    /\ ticks < MaxTicks
    /\ ticks' = ticks + 1
    /\ nowMs' = nowMs + 60 * 1000
    /\ UNCHANGED <<retryVars, gatVars, facadeVars>>
    /\ UNCHANGED otherVars

----------------------------------------------------------------------------
(* API Client facade: ReauditAPIClient.request *)

\* Retry-After headers a 429 response may carry
Headers ==
    {NoHeader, [kind |-> "secs", val |-> 2], [kind |-> "secs", val |-> 0],
     [kind |-> "date", val |-> 1002000], [kind |-> "date", val |-> 995500]}

\* statuses of failed API requests; 0 stands for "no response received"
ErrStatuses == {0, 400, 401, 429, 500}

\* Retry-After headers of the 429 responses of the API
ApiHeaders == {NoHeader, [kind |-> "secs", val |-> 2]}

\* a response of the API: status 200 with the `success` flag of the body,
\* or a failure status
ApiResponses ==
    {[status |-> 200, success |-> b, hdr |-> NoHeader] : b \in BOOLEAN}
    \cup {[status |-> st, success |-> FALSE, hdr |-> NoHeader] :
            st \in ErrStatuses}
    \cup {[status |-> 429, success |-> FALSE, hdr |-> h] : h \in ApiHeaders}

NoStatus == -1

\* request(): withRetry is entered with the default configuration
Request ==
    /\ pc = "idle"
    /\ pc' = "fn"
    /\ cfg' = DEFAULT_RETRY_CONFIG
    /\ attempt' = 0
    /\ UNCHANGED <<lastError, delay, result, fnCalls, thrown>>
    /\ UNCHANGED <<gatVars, facadeVars, nowMs, ticks>>
    /\ UNCHANGED otherVars

\* withRetry invokes fn, which runs up to `await getAccessToken()`
FnBegin ==
    /\ pc = "fn"
    /\ fnCalls' = fnCalls + 1
    /\ GatCall(1)
    /\ pc' = "tok1"
    /\ UNCHANGED <<cfg, attempt, lastError, delay, result, thrown>>
    /\ UNCHANGED <<facadeVars, nowMs, ticks>>
    /\ UNCHANGED otherVars

\* the first getAccessToken() returned: the request is issued
GotToken1 ==
    /\ pc = "tok1"
    /\ gatPc[1] = "returned"
    /\ accessToken' = gatResult[1].token
    /\ httpCount' = httpCount + 1
    /\ gatPc' = [gatPc EXCEPT ![1] = "idle"]
    /\ pc' = "http1"
    /\ UNCHANGED <<cfg, attempt, lastError, delay, result, fnCalls, thrown>>
    /\ UNCHANGED <<store, nextTok, gatTokens, gatResult, gatPath, gatResp,
                   refreshCount, authCount, gatCalls>>
    /\ UNCHANGED <<newToken, replayCount, firstStatus, lastReplayStatus,
                   nowMs, ticks>>
    /\ UNCHANGED otherVars

\* the first getAccessToken() threw: fn throws to withRetry
GatThrow1 ==
    /\ pc = "tok1"
    /\ gatPc[1] = "threw"
    /\ Catch(gatResult[1].error)
    /\ gatPc' = [gatPc EXCEPT ![1] = "idle"]
    /\ UNCHANGED <<store, nextTok, gatTokens, gatResult, gatPath, gatResp,
                   refreshCount, authCount, gatCalls>>
    /\ UNCHANGED <<facadeVars, nowMs, ticks>>
    /\ UNCHANGED otherVars

\* what the catch block of fn throws for a non-401 AxiosError
Wrap(error, now) == formatErrorForUser(parseError(error, now))

\* does the catch block of fn take the refresh-and-replay branch
IsReplayStatus(status) == status = 401

\* the response to the first request arrived
Http1Resp ==
    /\ pc = "http1"
    /\ \E resp \in ApiResponses :
         /\ firstStatus' = IF firstStatus = NoStatus THEN resp.status
                           ELSE firstStatus
         /\ CASE resp.status = 200 /\ resp.success ->
                   /\ Return
                   /\ UNCHANGED gatVars
              [] resp.status = 200 /\ ~resp.success ->
                   /\ Catch(PlainError("api"))
                   /\ UNCHANGED gatVars
              [] resp.status # 200 /\ IsReplayStatus(resp.status) ->
                   /\ GatCall(1)
                   /\ pc' = "tok2"
                   /\ UNCHANGED <<cfg, attempt, lastError, delay, result,
                                  fnCalls, thrown>>
              [] OTHER ->
                   /\ Catch(Wrap(AxiosError(resp.status, resp.hdr), nowMs))
                   /\ UNCHANGED gatVars
    /\ UNCHANGED <<accessToken, newToken, httpCount, replayCount,
                   lastReplayStatus, nowMs, ticks>>
    /\ UNCHANGED otherVars

\* the second getAccessToken() returned: the request is replayed
GotToken2 ==
    /\ pc = "tok2"
    /\ gatPc[1] = "returned"
    /\ newToken' = gatResult[1].token
    /\ httpCount' = httpCount + 1
    /\ replayCount' = replayCount + 1
    /\ gatPc' = [gatPc EXCEPT ![1] = "idle"]
    /\ pc' = "http2"
    /\ UNCHANGED <<cfg, attempt, lastError, delay, result, fnCalls, thrown>>
    /\ UNCHANGED <<store, nextTok, gatTokens, gatResult, gatPath, gatResp,
                   refreshCount, authCount, gatCalls>>
    /\ UNCHANGED <<accessToken, firstStatus, lastReplayStatus, nowMs, ticks>>
    /\ UNCHANGED otherVars

\* the second getAccessToken() threw: the error leaves fn as it is
GatThrow2 ==
    /\ pc = "tok2"
    /\ gatPc[1] = "threw"
    /\ Catch(gatResult[1].error)
    /\ gatPc' = [gatPc EXCEPT ![1] = "idle"]
    /\ UNCHANGED <<store, nextTok, gatTokens, gatResult, gatPath, gatResp,
                   refreshCount, authCount, gatCalls>>
    /\ UNCHANGED <<facadeVars, nowMs, ticks>>
    /\ UNCHANGED otherVars

\* the response to the replay arrived
Http2Resp ==
    /\ pc = "http2"
    /\ \E resp \in ApiResponses :
         /\ lastReplayStatus' = resp.status
         /\ CASE resp.status = 200 /\ resp.success -> Return
              [] resp.status = 200 /\ ~resp.success ->
                   Catch(PlainError("api"))
              [] OTHER -> Catch(AxiosError(resp.status, resp.hdr))
    /\ UNCHANGED <<accessToken, newToken, httpCount, replayCount, firstStatus,
                   nowMs, ticks>>
    /\ UNCHANGED gatVars
    /\ UNCHANGED otherVars

----------------------------------------------------------------------------
(* PKCE OAuth flow: OAuthClient.authenticate *)

Attempts == {1, 2}

\* /callback requests one attempt's listener may receive
MaxCallbacks == 2

AuthTimeoutMs == 5 * 60 * 1000

\* an authenticate() call: its promise, its http.Server, its timer, and the
\* history of what its callback handler did
AuIdle ==
    [promise |-> "none", outcome |-> "none", token |-> NoToken,
     listener |-> "none", closeCalls |-> 0, timer |-> FALSE, deadline |-> 0,
     inflight |-> 0, exchanges |-> 0, saves |-> 0, callbacks |-> 0,
     firstCb |-> [path |-> "none", error |-> FALSE, state |-> "none"],
     lastCb |-> [path |-> "none", error |-> FALSE, state |-> "none"]]

\* requests the local listener may receive; state "local" is the state the
\* attempt generated, "foreign" any other value
Callbacks ==
    [path : {"/callback", "/other"}, error : BOOLEAN,
     state : {"local", "foreign"}]

\* server.close()
Close(r) ==
    [r EXCEPT !.closeCalls = @ + 1,
              !.listener = IF @ = "bound" THEN "closed" ELSE @]

\* reject(reason): has an effect only while the promise is pending
Reject(r, reason) ==
    IF r.promise = "pending"
    THEN [r EXCEPT !.promise = "rejected", !.outcome = reason]
    ELSE r

\* resolve(token): has an effect only while the promise is pending
Resolve(r, token) ==
    IF r.promise = "pending"
    THEN [r EXCEPT !.promise = "resolved", !.outcome = "authenticated",
                   !.token = token]
    ELSE r

\* the branch the request handler takes on a request
HandlerBranchNoStateCheck(cb) ==
    IF cb.path # "/callback" THEN "ignore"
    ELSE IF cb.error THEN "denied"
    ELSE "exchange"

HandlerBranch(cb) ==
    IF cb.path # "/callback" THEN "ignore"
    ELSE IF cb.error THEN "denied"
    ELSE IF cb.state # "local" THEN "mismatch"
    ELSE "exchange"

\* the port is free when no attempt's server is listening on it
PortFree == \A b \in Attempts : au[b].listener # "bound"

\* the variables authenticate() does not touch
flowFrame == <<retryVars, facadeVars, ticks, gatPc, gatTokens, gatResult,
               gatPath, gatResp, refreshCount, authCount, gatCalls, calcVars,
               fileVars,
               extraVars>>

\* the timer the promise executor arms
ArmTimer(r, now) == [r EXCEPT !.timer = TRUE, !.deadline = now + AuthTimeoutMs]

\* authenticate(): the promise executor. server.listen on a busy port emits
\* 'error' on the server on the next tick; no 'error' listener is registered,
\* so the event is thrown as an uncaught exception.
AuthStart(a) ==
    /\ ~crashed
    /\ au[a].promise = "none"
    /\ LET r == [au[a] EXCEPT !.promise = "pending",
                              !.listener = IF PortFree THEN "bound"
                                           ELSE "bind_failed"]
       IN  au' = [au EXCEPT ![a] = ArmTimer(r, nowMs)]
    /\ crashed' = ~PortFree
    /\ UNCHANGED <<store, nextTok, nowMs>>
    /\ UNCHANGED flowFrame

\* the request handler up to its first await (or its return)
Callback(a) ==
    /\ ~crashed
    /\ au[a].listener = "bound"
    /\ au[a].callbacks < MaxCallbacks
    /\ \E cb \in Callbacks :
         LET branch == HandlerBranch(cb)
             r == [au[a] EXCEPT !.callbacks = @ + 1,
                                !.lastCb = cb,
                                !.firstCb = IF @.path = "none" THEN cb ELSE @]
         IN  au' = [au EXCEPT ![a] =
                 CASE branch = "denied" -> Reject(Close(r), "oauth_error")
                   [] branch = "mismatch" -> Reject(Close(r), "state_mismatch")
                   [] branch = "exchange" ->
                        [r EXCEPT !.exchanges = @ + 1, !.inflight = @ + 1]
                   [] OTHER -> r]
    /\ UNCHANGED <<crashed, store, nextTok, nowMs>>
    /\ UNCHANGED flowFrame

\* exchangeCode() resolved: tokens saved, server closed, promise resolved
ExchangeOk(a) ==
    /\ ~crashed
    /\ au[a].inflight > 0
    /\ nextTok <= MaxTok
    /\ \E e \in ExpiresIn :
         LET resp == TokenResponse(nextTok, e)
             r == [au[a] EXCEPT !.inflight = @ - 1, !.saves = @ + 1]
         IN  /\ store' = saveTokens(NewRecord(resp, nowMs))
             /\ au' = [au EXCEPT ![a] = Resolve(Close(r), resp.access_token)]
    /\ nextTok' = nextTok + 1
    /\ UNCHANGED <<crashed, nowMs>>
    /\ UNCHANGED flowFrame

\* exchangeCode() rejected: server closed, promise rejected with the error
ExchangeFail(a) ==
    /\ ~crashed
    /\ au[a].inflight > 0
    /\ LET r == [au[a] EXCEPT !.inflight = @ - 1]
       IN  au' = [au EXCEPT ![a] = Reject(Close(r), "exchange_failed")]
    /\ UNCHANGED <<crashed, store, nextTok, nowMs>>
    /\ UNCHANGED flowFrame

\* the five-minute timer fired
AuthTimeout(a) ==
    /\ ~crashed
    /\ au[a].timer
    /\ LET r == [au[a] EXCEPT !.timer = FALSE]
       IN  au' = [au EXCEPT ![a] = Reject(Close(r), "timeout")]
    /\ nowMs' = Max(nowMs, au[a].deadline)
    /\ UNCHANGED <<crashed, store, nextTok>>
    /\ UNCHANGED flowFrame

----------------------------------------------------------------------------
(* Calls of the pure functions and of the token store: "not called yet" *)

NoDelayCall == [called |-> FALSE, att |-> 0, config |-> DEFAULT_RETRY_CONFIG,
                k |-> 0, out |-> 0]

NoParseCall == [called |-> FALSE, error |-> NonError, now |-> 0,
                out |-> NoError]

NoExpiryCall == [called |-> FALSE, file |-> NoTokens, now |-> 0, out |-> FALSE]

\* logout() has not been called
LoIdle == [pc |-> "idle", baseUrl |-> "", tokens |-> <<>>, revokes |-> 0,
           revokeOk |-> FALSE, threw |-> FALSE]

NoAuthCheck == [called |-> FALSE, baseUrl |-> "", out |-> FALSE]

\* the operation ids generateOperationId hands out
MaxOperations == 2
OperationIds == 1..MaxOperations

\* activeOperations has no entry under the id
NoOperation == [exists |-> FALSE, status |-> "none", progress |-> 0,
                message |-> "", cancelled |-> FALSE]

\* the most delete timers one operation has pending
MaxCleanups == 2

\* the lifetime of a confirmation token (ms)
CONFIRMATION_TTL == 5 * 60 * 1000

\* Date.now() as the confirmation module reads it: it advances by half a
\* lifetime at a time, so that a token is seen before, at and after its
\* expiresAt
ConfStep == CONFIRMATION_TTL \div 2
MaxConfTicks == 3
ConfTimes == {k * ConfStep : k \in 0..MaxConfTicks}

\* the outcomes of Math.random().toString(36).substring(2, 15)
MaxRandomParts == 1
RandomParts == 1..MaxRandomParts

\* generateConfirmationToken: `confirm_${Date.now()}_${random}`
generateConfirmationToken(now, random) == <<now, random>>
Tokens == {generateConfirmationToken(t, r) : t \in ConfTimes, r \in RandomParts}

\* the most createConfirmationRequest calls of one run
MaxCreates == 2

\* the keys of OPERATION_CONFIGS that are modelled, and a type it lacks
OPERATION_CONFIGS == {"delete_project", "generate_content"}
UnknownOperation == "unknown_operation"

\* validateConfirmation called without expectedOperation
NoExpected == ""

\* pendingConfirmations has no entry under the token
NoPending == [exists |-> FALSE, operationType |-> "", createdAt |-> 0,
              expiresAt |-> 0]

\* createConfirmationRequest has never returned the token
NotIssued == [count |-> 0, operationType |-> ""]

\* validateConfirmation has not been called
NoValidateCall == [called |-> FALSE, token |-> <<0, 0>>, expected |-> "",
                   now |-> 0, valid |-> FALSE, error |-> "",
                   issued |-> NotIssued]

\* credentials.json does not exist
NoFile == [exists |-> FALSE, kind |-> "none", version |-> 0, tokens |-> <<>>,
           baseUrl |-> ""]

NoLoad == [called |-> FALSE, baseUrl |-> "", machine |-> 0, result |-> <<>>,
           threw |-> FALSE]

NoSave == [called |-> FALSE, baseUrl |-> "", machine |-> 0, record |-> <<>>]

----------------------------------------------------------------------------
(* The facade specification: one request() call *)

InitTimes == {1000500}

\* seconds left on the stored record when the call starts
InitRemaining == {60, 300, 301, 330, 3600}

InitStores(now) ==
    {NoTokens} \cup
    {saveTokens([accessToken |-> AccessTok(0), refreshToken |-> RefreshTok(0),
                 expiresAt |-> (now \div 1000) + d, scope |-> "full_access"]) :
       d \in InitRemaining}

InitCommon ==
    /\ pc = "idle"
    /\ cfg = DEFAULT_RETRY_CONFIG
    /\ attempt = 0
    /\ lastError = NoError
    /\ delay = 0
    /\ result = Pending
    /\ fnCalls = 0
    /\ thrown = <<>>
    /\ ticks = 0
    /\ nextTok = 1
    /\ gatPc = [c \in Callers |-> "idle"]
    /\ gatTokens = [c \in Callers |-> NoTokens]
    /\ gatResult = [c \in Callers |-> Returned(NoToken)]
    /\ gatPath = [c \in Callers |-> "none"]
    /\ gatResp = [c \in Callers |-> NoResponse]
    /\ accessToken = NoToken
    /\ newToken = NoToken
    /\ httpCount = 0
    /\ replayCount = 0
    /\ refreshCount = 0
    /\ authCount = 0
    /\ gatCalls = 0
    /\ firstStatus = NoStatus
    /\ lastReplayStatus = NoStatus
    /\ au = [a \in Attempts |-> AuIdle]
    /\ crashed = FALSE
    /\ dcalc = NoDelayCall
    /\ pcalc = NoParseCall
    /\ ecalc = NoExpiryCall
    /\ lo = LoIdle
    /\ authed = NoAuthCheck
    /\ activeOperations = [id \in OperationIds |-> NoOperation]
    /\ wp = [id \in OperationIds |-> "none"]
    /\ cleanups = [id \in OperationIds |-> 0]
    /\ pendingConfirmations = [t \in Tokens |-> NoPending]
    /\ confNow = 0
    /\ issued = [t \in Tokens |-> NotIssued]
    /\ accepted = [t \in Tokens |-> 0]
    /\ vcall = NoValidateCall
    /\ credFile = NoFile
    /\ machineId = 1
    /\ loaded = NoLoad
    /\ saved = NoSave

Init ==
    /\ InitCommon
    /\ nowMs \in InitTimes
    /\ store \in InitStores(nowMs)

Next ==
    \/ Request
    \/ FnBegin
    \/ GotToken1
    \/ GatThrow1
    \/ Http1Resp
    \/ GotToken2
    \/ GatThrow2
    \/ Http2Resp
    \/ WaitDone
    \/ Tick
    \/ RefreshOk(1)
    \/ RefreshFail(1)
    \/ AuthOk(1)
    \/ AuthFail(1)

Spec == Init /\ [][Next]_vars

----------------------------------------------------------------------------
(* The retry-executor specification: withRetry around an arbitrary fn *)

\* the configurations a caller passes, merged over DEFAULT_RETRY_CONFIG
RetryConfigs ==
    {[maxRetries |-> n, baseDelay |-> DEFAULT_RETRY_CONFIG.baseDelay,
      maxDelay |-> m, retryableCategories |-> cats] :
        n \in 0 .. MaxRetriesCfg,
        m \in {DEFAULT_RETRY_CONFIG.maxDelay, 1500},
        cats \in {DEFAULT_RETRY_CONFIG.retryableCategories, {"server"},
                  {"rate_limit", "server", "network", "validation"}}}

\* statuses of the AxiosErrors an arbitrary fn may throw
OpStatuses == {0, 400, 401, 403, 404, 418, 422, 500, 503}

\* the values an arbitrary fn may throw
OpErrors ==
    {AxiosError(st, NoHeader) : st \in OpStatuses}
    \cup {AxiosError(429, h) : h \in Headers}
    \cup {PlainError("op"), NonError}

\* withRetry(fn, config) is called
WithRetryCall ==
    /\ pc = "idle"
    /\ \E config \in RetryConfigs : cfg' = config
    /\ pc' = "fn"
    /\ attempt' = 0
    /\ UNCHANGED <<lastError, delay, result, fnCalls, thrown>>
    /\ UNCHANGED <<gatVars, facadeVars, nowMs, ticks>>
    /\ UNCHANGED otherVars

\* the loop body invokes fn
OpInvoke ==
    /\ pc = "fn"
    /\ fnCalls' = fnCalls + 1
    /\ pc' = "running"
    /\ UNCHANGED <<cfg, attempt, lastError, delay, result, thrown>>
    /\ UNCHANGED <<gatVars, facadeVars, nowMs, ticks>>
    /\ UNCHANGED otherVars

\* fn resolved
OpReturn ==
    /\ pc = "running"
    /\ Return
    /\ UNCHANGED <<gatVars, facadeVars, nowMs, ticks>>
    /\ UNCHANGED otherVars

\* fn rejected
OpThrow ==
    /\ pc = "running"
    /\ \E error \in OpErrors : Catch(error)
    /\ UNCHANGED <<gatVars, facadeVars, nowMs, ticks>>
    /\ UNCHANGED otherVars

InitRetry ==
    /\ InitCommon
    /\ nowMs \in InitTimes
    /\ store = NoTokens

NextRetry ==
    \/ WithRetryCall
    \/ OpInvoke
    \/ OpReturn
    \/ OpThrow
    \/ WaitDone
    \/ Tick

SpecRetry == InitRetry /\ [][NextRetry]_vars

----------------------------------------------------------------------------
(* The OAuth flow specification: concurrent authenticate() attempts *)

InitAuth ==
    /\ InitCommon
    /\ nowMs \in InitTimes
    /\ store = NoTokens

NextAuth ==
    \E a \in Attempts :
        \/ AuthStart(a)
        \/ Callback(a)
        \/ ExchangeOk(a)
        \/ ExchangeFail(a)
        \/ AuthTimeout(a)

SpecAuth == InitAuth /\ [][NextAuth]_vars

\* the event loop runs every timer that is due
SpecAuthFair == SpecAuth /\ \A a \in Attempts : WF_vars(AuthTimeout(a))

----------------------------------------------------------------------------
(* The classifier and backoff specification: calls of the pure functions *)

\* largest attempt number calculateRetryDelay is called with
MaxAttemptK == 6

\* retry configurations calculateRetryDelay is called with
DelayConfigs ==
    {[maxRetries |-> 3, baseDelay |-> b, maxDelay |-> m,
      retryableCategories |-> DEFAULT_RETRY_CONFIG.retryableCategories] :
        b \in {0, 1, 3, 7, 250, 1000}, m \in {5, 1500, 30000}}

\* values of Date.now() parseError runs at
ClassifyTimes == {1000500, 1003000}

\* calculateRetryDelay(attempt, config) is called
CalcDelay ==
    /\ ~dcalc.called
    /\ \E att \in 0 .. MaxAttemptK, config \in DelayConfigs,
          k \in RandomSamples :
         dcalc' = [called |-> TRUE, att |-> att, config |-> config, k |-> k,
                   out |-> calculateRetryDelay(att, config, k)]
    /\ UNCHANGED <<retryVars, gatVars, facadeVars, nowMs, ticks, flowVars,
                   pcalc, fileVars, extraVars>>

\* parseError(error) is called
Classify ==
    /\ ~pcalc.called
    /\ \E error \in OpErrors, now \in ClassifyTimes :
         pcalc' = [called |-> TRUE, error |-> error, now |-> now,
                   out |-> parseError(error, now)]
    /\ UNCHANGED <<retryVars, gatVars, facadeVars, nowMs, ticks, flowVars,
                   dcalc, fileVars, extraVars>>

\* expiresAt of the stored records isAccessTokenExpired is called on
ExpiryStamps == {1060, 1299, 1300, 1301, 4600}

\* values of Date.now() isAccessTokenExpired runs at
ExpiryTimes == {1000000, 1000500}

\* tokenStore.isAccessTokenExpired() is called
CheckExpired ==
    /\ ~ecalc.called
    /\ \E now \in ExpiryTimes,
          file \in {NoTokens} \cup
                   {saveTokens([accessToken |-> AccessTok(0),
                                refreshToken |-> RefreshTok(0),
                                expiresAt |-> e, scope |-> "full_access"]) :
                      e \in ExpiryStamps} :
         ecalc' = [called |-> TRUE, file |-> file, now |-> now,
                   out |-> isAccessTokenExpired(file, now)]
    /\ UNCHANGED <<retryVars, gatVars, facadeVars, nowMs, ticks, flowVars,
                   calcVars, fileVars, logoutVars, trackerVars, confVars>>

InitCalc ==
    /\ InitCommon
    /\ nowMs \in InitTimes
    /\ store = NoTokens

NextCalc ==
    \/ CalcDelay
    \/ Classify
    \/ CheckExpired

SpecCalc == InitCalc /\ [][NextCalc]_vars

----------------------------------------------------------------------------
(* The credentials file: TokenStore.saveTokens / loadTokens on disk.       *)
(* Strings are sequences of bytes 0 .. ByteMod - 1; AES-256-CBC is scaled   *)
(* down to a keyed block permutation on blocks of BlockLen bytes, chained   *)
(* and padded as CBC with PKCS#7 padding is, with addition modulo ByteMod   *)
(* in the place of XOR.                                                      *)

ByteMod == 4           \* number of byte values
BlockLen == 2          \* bytes in a cipher block
MaxTextLen == 3        \* longest token string saved

FILE_VERSION == 1
HexBase == 16
Colon == -1            \* the character ':' (not a hex digit)

Byte == 0 .. (ByteMod - 1)

\* os.hostname() + os.userInfo().username of the machines the file is used on
Machines == {1, 2}

BaseUrls == {"https://a", "https://b"}

\* token strings of every length up to MaxTextLen
Text(n, s) == [i \in 1 .. n |-> (s + i * i) % ByteMod]
TokenTexts == {Text(n, s) : n \in 0 .. MaxTextLen, s \in {0, 1}}

\* the digest of the machine identity
getEncryptionKey(machine) ==
    [i \in 1 .. BlockLen |-> (machine * i + i - 1) % ByteMod]

\* sampled values of crypto.randomBytes(16)
Ivs == {[i \in 1 .. BlockLen |-> (s + i) % ByteMod] : s \in 1 .. BlockLen}

\* the block cipher and its inverse
encryptBlock(key, b) ==
    [i \in 1 .. BlockLen |-> (b[BlockLen + 1 - i] + key[i]) % ByteMod]

decryptBlock(key, c) ==
    [i \in 1 .. BlockLen |->
        (c[BlockLen + 1 - i] - key[BlockLen + 1 - i]) % ByteMod]

\* PKCS#7 padding: n bytes of value n, 1 <= n <= BlockLen
pkcs7Pad(bytes) ==
    LET n == BlockLen - (Len(bytes) % BlockLen)
    IN  bytes \o [i \in 1 .. n |-> n]

BadDecrypt == [ok |-> FALSE, text |-> <<>>]

\* decipher.final(): throws unless the padding is well formed
pkcs7UnpadKeep(bytes) == [ok |-> TRUE, text |-> bytes]

pkcs7Unpad(bytes) ==
    IF Len(bytes) = 0 THEN BadDecrypt
    ELSE LET n == bytes[Len(bytes)]
         IN  IF /\ n \in 1 .. BlockLen
                /\ n <= Len(bytes)
                /\ \A i \in (Len(bytes) - n + 1) .. Len(bytes) : bytes[i] = n
             THEN [ok |-> TRUE, text |-> SubSeq(bytes, 1, Len(bytes) - n)]
             ELSE BadDecrypt

\* CBC over whole blocks; prev is the iv, then the previous cipher block
RECURSIVE cbcEncrypt(_, _, _)
cbcEncrypt(key, prev, bytes) ==
    IF bytes = <<>> THEN <<>>
    ELSE LET b == SubSeq(bytes, 1, BlockLen)
             c == encryptBlock(key,
                      [i \in 1 .. BlockLen |-> (b[i] + prev[i]) % ByteMod])
         IN  c \o cbcEncrypt(key, c, SubSeq(bytes, BlockLen + 1, Len(bytes)))

RECURSIVE cbcDecrypt(_, _, _)
cbcDecrypt(key, prev, bytes) ==
    IF bytes = <<>> THEN <<>>
    ELSE LET c == SubSeq(bytes, 1, BlockLen)
             d == decryptBlock(key, c)
         IN  [i \in 1 .. BlockLen |-> (d[i] - prev[i]) % ByteMod]
             \o cbcDecrypt(key, c, SubSeq(bytes, BlockLen + 1, Len(bytes)))

\* buffer.toString('hex'): two digits for a byte
toHex(bytes) ==
    [i \in 1 .. (2 * Len(bytes)) |->
        IF i % 2 = 1 THEN bytes[(i + 1) \div 2] \div HexBase
        ELSE bytes[i \div 2] % HexBase]

\* Buffer.from(digits, 'hex'): a trailing odd digit is dropped
fromHex(digits) ==
    [i \in 1 .. (Len(digits) \div 2) |->
        digits[2 * i - 1] * HexBase + digits[2 * i]]

\* text.split(':'), its first two parts (one part when there is no ':')
split(text) ==
    LET colons == {i \in 1 .. Len(text) : text[i] = Colon}
    IN  IF colons = {} THEN <<text>>
        ELSE LET i == CHOOSE j \in colons : \A k \in colons : j <= k
                 later == {k \in colons : k > i}
                 e == IF later = {} THEN Len(text)
                      ELSE (CHOOSE j \in later : \A k \in later : j <= k) - 1
             IN  <<SubSeq(text, 1, i - 1), SubSeq(text, i + 1, e)>>

encrypt(text, machine, iv) ==
    toHex(iv) \o <<Colon>>
    \o toHex(cbcEncrypt(getEncryptionKey(machine), iv, pkcs7Pad(text)))

\* decrypt(text): ok is FALSE when the code throws
decrypt(text, machine) ==
    LET parts == split(text)
    IN  IF Len(parts) < 2 THEN BadDecrypt
        ELSE LET iv == fromHex(parts[1])
                 c == fromHex(parts[2])
             IN  IF Len(iv) # BlockLen THEN BadDecrypt
                 ELSE IF Len(c) = 0 \/ Len(c) % BlockLen # 0 THEN BadDecrypt
                 ELSE pkcs7Unpad(cbcDecrypt(getEncryptionKey(machine), iv, c))

\* the file saveTokens writes; ivA and ivR are the two random ivs
TokenStore_saveTokens(tokens, baseUrl, machine, ivA, ivR) ==
    [exists |-> TRUE, kind |-> "json", version |-> FILE_VERSION,
     tokens |-> <<[accessToken |-> encrypt(tokens.accessToken, machine, ivA),
                   refreshToken |-> encrypt(tokens.refreshToken, machine, ivR),
                   expiresAt |-> tokens.expiresAt,
                   scope |-> tokens.scope]>>,
     baseUrl |-> baseUrl]

\* the try block of loadTokens: threw is TRUE when a statement in it throws
\* (JSON.parse on a damaged file, decrypt on a damaged or foreign string);
\* value is <<record>>, or <<>> for null
TryLoad(file, baseUrl, machine) ==
    IF ~file.exists THEN [threw |-> FALSE, value |-> <<>>]
    ELSE IF file.kind # "json" THEN [threw |-> TRUE, value |-> <<>>]
    ELSE IF file.version # FILE_VERSION \/ file.baseUrl # baseUrl
         THEN [threw |-> FALSE, value |-> <<>>]
    ELSE IF file.tokens = <<>> THEN [threw |-> FALSE, value |-> <<>>]
    ELSE LET a == decrypt(file.tokens[1].accessToken, machine)
             r == decrypt(file.tokens[1].refreshToken, machine)
         IN  IF a.ok /\ r.ok
             THEN [threw |-> FALSE,
                   value |-> <<[accessToken |-> a.text,
                                refreshToken |-> r.text,
                                expiresAt |-> file.tokens[1].expiresAt,
                                scope |-> file.tokens[1].scope]>>]
             ELSE [threw |-> TRUE, value |-> <<>>]

\* the catch block of loadTokens
CatchLoadRethrow(r) == r

CatchLoad(r) == IF r.threw THEN [threw |-> FALSE, value |-> <<>>] ELSE r

\* what loadTokens returns: <<record>>, or <<>> for null
TokenStore_loadTokens(file, baseUrl, machine) ==
    CatchLoad(TryLoad(file, baseUrl, machine)).value

\* whether loadTokens ends by throwing
TokenStore_loadTokensThrows(file, baseUrl, machine) ==
    CatchLoad(TryLoad(file, baseUrl, machine)).threw

\* the file clearTokens leaves: unlinked when it exists, else untouched
TokenStore_clearTokens(file) == IF file.exists THEN NoFile ELSE file

\* the credential records saved
StoredRecords ==
    {[accessToken |-> t, refreshToken |-> r,
      expiresAt |-> 1000 + 3600 * Len(r),
      scope |-> IF Len(t) % 2 = 0 THEN "full_access" ELSE "read"] :
        t \in TokenTexts, r \in {<<0>>, <<3, 1>>}}

storeFrame == <<retryVars, gatVars, facadeVars, nowMs, ticks, flowVars,
                calcVars, extraVars>>

\* new TokenStore(baseUrl).saveTokens(tokens)
SaveTokens ==
    /\ \E tokens \in StoredRecords, baseUrl \in BaseUrls, ivA \in Ivs,
          ivR \in Ivs :
         /\ credFile' = TokenStore_saveTokens(tokens, baseUrl, machineId,
                                              ivA, ivR)
         /\ saved' = [called |-> TRUE, baseUrl |-> baseUrl,
                      machine |-> machineId, record |-> <<tokens>>]
    /\ loaded' = NoLoad
    /\ UNCHANGED machineId
    /\ UNCHANGED storeFrame

\* new TokenStore(baseUrl).loadTokens()
LoadTokens ==
    /\ \E baseUrl \in BaseUrls :
         loaded' = [called |-> TRUE, baseUrl |-> baseUrl,
                    machine |-> machineId,
                    result |-> TokenStore_loadTokens(credFile, baseUrl,
                                                     machineId),
                    threw |-> TokenStore_loadTokensThrows(credFile, baseUrl,
                                                          machineId)]
    /\ UNCHANGED <<credFile, machineId, saved>>
    /\ UNCHANGED storeFrame

\* clearTokens(): the file is unlinked
ClearTokens ==
    /\ credFile' = TokenStore_clearTokens(credFile)
    /\ saved' = NoSave
    /\ loaded' = NoLoad
    /\ UNCHANGED machineId
    /\ UNCHANGED storeFrame

\* the host is renamed, or the file is used under another account
MachineChange ==
    /\ \E m \in Machines \ {machineId} : machineId' = m
    /\ UNCHANGED <<credFile, loaded, saved>>
    /\ UNCHANGED storeFrame

\* what is left of a credentials file after damage: truncated JSON, the
\* file of another format version, tokens: null, an encrypted string without
\* ':', with a shortened iv, with a ciphertext cut inside a block
DamagedFiles(file) ==
    {[NoFile EXCEPT !.exists = TRUE, !.kind = "corrupt"],
     [file EXCEPT !.version = FILE_VERSION + 1],
     [file EXCEPT !.tokens = <<>>]}
    \cup IF file.tokens = <<>> THEN {}
         ELSE {[file EXCEPT !.tokens[1].accessToken = <<0, 1>>],
               [file EXCEPT !.tokens[1].refreshToken = Tail(@)],
               [file EXCEPT !.tokens[1].accessToken =
                                SubSeq(@, 1, Len(@) - 2)]}

\* the file saveTokens wrote is damaged or replaced outside the program
Tamper ==
    /\ saved.called
    /\ \E file \in DamagedFiles(credFile) : credFile' = file
    /\ saved' = NoSave
    /\ loaded' = NoLoad
    /\ UNCHANGED machineId
    /\ UNCHANGED storeFrame

InitStore ==
    /\ InitCommon
    /\ nowMs \in InitTimes
    /\ store = NoTokens

NextStore ==
    \/ SaveTokens
    \/ LoadTokens
    \/ ClearTokens
    \/ MachineChange
    \/ Tamper

SpecStore == InitStore /\ [][NextStore]_vars

----------------------------------------------------------------------------
(* The token-lifecycle specification: concurrent getAccessToken() calls *)

\* a tool handler calls getAccessToken()
GetAccessToken(c) ==
    /\ GatCall(c)
    /\ UNCHANGED <<retryVars, facadeVars, nowMs, ticks>>
    /\ UNCHANGED otherVars

InitGat ==
    /\ InitCommon
    /\ nowMs \in InitTimes
    /\ store \in InitStores(nowMs)

NextGat ==
    \/ \E c \in Callers :
         \/ GetAccessToken(c)
         \/ RefreshOk(c)
         \/ RefreshFail(c)
         \/ AuthOk(c)
         \/ AuthFail(c)
    \/ Tick

SpecGat == InitGat /\ [][NextGat]_vars

----------------------------------------------------------------------------
(* OAuthClient.logout and isAuthenticated, on the credentials file *)

logoutFrame == <<retryVars, gatVars, facadeVars, nowMs, ticks, flowVars,
                 calcVars, expVars, machineId, loaded, saved, trackerVars,
                 confVars>>

\* logout() up to `await axios.post(.../revoke)`, or to its end when no
\* record is loadable
Logout ==
    /\ lo.pc = "idle"
    /\ \E baseUrl \in BaseUrls :
         LET tokens == TokenStore_loadTokens(credFile, baseUrl, machineId)
         IN  IF tokens # <<>>
             THEN /\ lo' = [lo EXCEPT !.pc = "revoking", !.baseUrl = baseUrl,
                                      !.tokens = tokens, !.revokes = @ + 1]
                  /\ UNCHANGED credFile
             ELSE /\ lo' = [lo EXCEPT !.pc = "done", !.baseUrl = baseUrl]
                  /\ credFile' = TokenStore_clearTokens(credFile)
    /\ authed' = NoAuthCheck
    /\ UNCHANGED logoutFrame

\* the rest of logout() once the revoke request has settled: a failure is
\* caught and ignored, then the tokens are cleared
AfterRevokePropagate(r, file, ok) ==
    IF ok
    THEN [lo |-> [r EXCEPT !.pc = "done", !.revokeOk = TRUE],
          file |-> TokenStore_clearTokens(file)]
    ELSE [lo |-> [r EXCEPT !.pc = "done", !.threw = TRUE], file |-> file]

AfterRevoke(r, file, ok) ==
    [lo |-> [r EXCEPT !.pc = "done", !.revokeOk = ok],
     file |-> TokenStore_clearTokens(file)]

\* the revoke request succeeded or failed
RevokeDone ==
    /\ lo.pc = "revoking"
    /\ \E ok \in BOOLEAN :
         LET after == AfterRevoke(lo, credFile, ok)
         IN  /\ lo' = after.lo
             /\ credFile' = after.file
    /\ authed' = NoAuthCheck
    /\ UNCHANGED logoutFrame

\* isAuthenticated()
IsAuthenticated ==
    /\ \E baseUrl \in BaseUrls :
         authed' = [called |-> TRUE, baseUrl |-> baseUrl,
                    out |-> TokenStore_loadTokens(credFile, baseUrl,
                                                  machineId) # <<>>]
    /\ UNCHANGED <<lo, credFile>>
    /\ UNCHANGED logoutFrame

\* the credentials files earlier sessions may have left: saved by this or
\* another machine identity, for this or another base URL, or damaged
LogoutFiles ==
    {[NoFile EXCEPT !.exists = TRUE, !.kind = "corrupt"]}
    \cup {TokenStore_saveTokens(tokens, baseUrl, machine, iv, iv) :
            tokens \in StoredRecords, baseUrl \in BaseUrls,
            machine \in Machines, iv \in Ivs}

\* an earlier session wrote the file
EarlierSession ==
    /\ lo.pc = "idle"
    /\ ~credFile.exists
    /\ ~authed.called
    /\ credFile' \in LogoutFiles
    /\ UNCHANGED <<lo, authed>>
    /\ UNCHANGED logoutFrame

InitLogout ==
    /\ InitCommon
    /\ nowMs \in InitTimes
    /\ store = NoTokens

NextLogout ==
    \/ EarlierSession
    \/ Logout
    \/ RevokeDone
    \/ IsAuthenticated

SpecLogout == InitLogout /\ [][NextLogout]_vars

----------------------------------------------------------------------------
(* Properties of the facade, checked under Spec *)

\* the categories the classifier marks retryable
RetryableCategories == {"rate_limit", "server", "network"}

\* C1: in a request() call whose first HTTP attempt fails with 401 and whose
\* replay fails with 401 too, the request was replayed exactly once (two HTTP
\* requests, two getAccessToken calls in all); once a replay has failed with
\* 401 the call is over: no further HTTP request, token refresh or
\* authentication is made, and the failure that propagates is the 401
\* failure, classified as an Authentication error.
C1_Replay401IsFinal ==
    /\ [](lastReplayStatus = 401 =>
            /\ pc = "done"
            /\ result.kind = "threw"
            /\ result.error.type = "AxiosError"
            /\ result.error.status = 401
            /\ lastError.category = "authentication"
            /\ lastError.originalError = result.error
            /\ (firstStatus = 401 /\ fnCalls = 1 =>
                  /\ httpCount = 2
                  /\ replayCount = 1
                  /\ gatCalls = 2))
    /\ [][lastReplayStatus = 401 =>
            /\ httpCount' = httpCount
            /\ replayCount' = replayCount
            /\ refreshCount' = refreshCount
            /\ authCount' = authCount
            /\ gatCalls' = gatCalls]_vars

C1_Witness ==
    /\ pc = "done"
    /\ fnCalls = 1
    /\ firstStatus = 401
    /\ lastReplayStatus = 401

\* C2: whenever the request is replayed after a 401, the getAccessToken call
\* made for the replay has performed a refresh exchange or a
\* re-authentication, and the replay carries a token other than the one the
\* server has just rejected.
C2_ForcedRefreshBeforeReplay ==
    pc = "http2" => /\ gatPath[1] # "cached"
                    /\ newToken # accessToken

\* C3: within one request() call the 401-triggered replay happens at most
\* once, whatever the responses and however often withRetry invokes fn.
C3_AtMostOneReplay == replayCount <= 1

\* C6: a request() call whose HTTP request failed with a retryable category
\* (429, 5xx, no response) while the retry budget was not exhausted does not
\* end after that single attempt: the request is issued again.
C6_RetryableFailureIsRetried ==
    (/\ pc = "done"
     /\ firstStatus # NoStatus
     /\ firstStatus # 200
     /\ (\/ categorizeHttpError(firstStatus) \in RetryableCategories
         \/ firstStatus = 0)
     /\ cfg.maxRetries > 0)
    => httpCount > 1

\* C7: no failure that request() propagates to its caller is a raw
\* AxiosError of an API request (here: of a call that made API requests and
\* no token-endpoint request, so that the error can only be the API's).
C7_NoRawTransportError ==
    (/\ pc = "done"
     /\ result.kind = "threw"
     /\ httpCount >= 1
     /\ refreshCount = 0
     /\ authCount = 0)
    => result.error.type # "AxiosError"

\* C8: a getAccessToken call that finds a stored record with less than the
\* five-minute buffer left issues a refresh request and starts no
\* interactive flow; when the refresh succeeds the call returns the access
\* token of the refresh response, and the store holds the response's access
\* token, refresh token and expiry (now + expires_in), all new.
C8_ExpiredRecordIsRefreshed ==
    [][/\ (/\ gatCalls' = gatCalls + 1
           /\ store # NoTokens
           /\ store[1].expiresAt * 1000 - nowMs < BufferMs)
          => /\ refreshCount' = refreshCount + 1
             /\ authCount' = authCount
             /\ \E c \in Callers :
                  gatPc[c] = "idle" /\ gatPc'[c] = "refreshing"
       /\ \A c \in Callers :
            (gatPc[c] = "refreshing" /\ gatPc'[c] = "returned")
            => /\ gatResult'[c].token = gatResp'[c].access_token
               /\ gatResp'[c].access_token.kind = "access"
               /\ gatResp'[c].refresh_token.kind = "refresh"
               /\ store' = <<[accessToken |-> gatResp'[c].access_token,
                              refreshToken |-> gatResp'[c].refresh_token,
                              expiresAt |-> (nowMs \div 1000)
                                            + gatResp'[c].expires_in,
                              scope |-> gatResp'[c].scope]>>
               /\ store'[1].accessToken # gatTokens[c][1].accessToken
               /\ store'[1].refreshToken # gatTokens[c][1].refreshToken
               /\ authCount' = authCount
               /\ refreshCount' = refreshCount]_vars

C8_Witness ==
    /\ gatPc[1] = "returned"
    /\ gatPath[1] = "refreshed"
    /\ authCount = 0
    /\ store # NoTokens
    /\ gatResult[1].token = store[1].accessToken

\* C9: when the refresh exchange fails, getAccessToken clears the stored
\* credentials and starts the interactive flow; it does not throw the
\* refresh error.
C9_RefreshFailureReauthenticates ==
    [][\A c \in Callers :
         (gatPc[c] = "refreshing" /\ gatPc'[c] \notin {"refreshing", "returned"})
         => /\ gatPc'[c] = "authenticating"
            /\ store' = NoTokens
            /\ authCount' = authCount + 1
            /\ refreshCount' = refreshCount]_vars

C9_Witness ==
    /\ gatPc[1] = "authenticating"
    /\ gatPath[1] = "refresh_failed"
    /\ store = NoTokens

\* C10: a getAccessToken call that finds a stored record with more than the
\* five-minute buffer left returns that record's access token at once: no
\* refresh request, no API request, no interactive flow, and the stored
\* record is unchanged.
C10_ValidRecordIsReused ==
    [][(/\ gatCalls' = gatCalls + 1
        /\ store # NoTokens
        /\ store[1].expiresAt * 1000 - nowMs > BufferMs)
       => /\ \E c \in Callers :
               /\ gatPc[c] = "idle"
               /\ gatPc'[c] = "returned"
               /\ gatResult'[c] = Returned(store[1].accessToken)
          /\ store' = store
          /\ nextTok' = nextTok
          /\ refreshCount' = refreshCount
          /\ authCount' = authCount
          /\ httpCount' = httpCount]_vars

C10_Witness ==
    /\ gatPc[1] = "returned"
    /\ gatPath[1] = "cached"
    /\ gatCalls = 1
    /\ refreshCount = 0
    /\ authCount = 0

----------------------------------------------------------------------------
(* Properties of withRetry, checked under SpecRetry *)

\* the category the classifier gives a thrown value
CategoryOf(e) ==
    IF e.type # "AxiosError" THEN "unknown"
    ELSE IF e.status = 0 THEN "network"
    ELSE categorizeHttpError(e.status)

\* the policy retries the thrown value: its category is retryable and is in
\* the configured set
PolicyRetries(e) ==
    /\ CategoryOf(e) \in RetryableCategories
    /\ CategoryOf(e) \in cfg.retryableCategories

\* C4: withRetry with maxRetries = N invokes fn at most N + 1 times; when
\* every invocation failed with a category the policy retries, fn was invoked
\* exactly N + 1 times and the error thrown is the one the last invocation
\* raised, unchanged.
C4_AtMostNPlusOneCalls ==
    /\ fnCalls <= cfg.maxRetries + 1
    /\ (/\ pc = "done"
        /\ Len(thrown) = fnCalls
        /\ \A i \in 1 .. Len(thrown) : PolicyRetries(thrown[i]))
       => /\ fnCalls = cfg.maxRetries + 1
          /\ result.kind = "threw"
          /\ result.error = thrown[fnCalls]
          /\ result.error.id = fnCalls

C4_Witness ==
    /\ pc = "done"
    /\ cfg.maxRetries = 2
    /\ fnCalls = 3
    /\ Len(thrown) = 3
    /\ \A i \in 1 .. 3 : PolicyRetries(thrown[i])

\* C5: a failure whose category is not retryable, or is not in the configured
\* retryableCategories, is never retried: it is the last invocation of fn and
\* its error is thrown; when it is the first failure, fn was invoked exactly
\* once.
C5_NonRetryableIsNotRetried ==
    \A i \in 1 .. Len(thrown) :
        ~PolicyRetries(thrown[i])
        => /\ pc = "done"
           /\ i = Len(thrown)
           /\ fnCalls = i
           /\ result = Failed(thrown[i])

C5_Witness ==
    /\ pc = "done"
    /\ fnCalls = 1
    /\ Len(thrown) = 1
    /\ CategoryOf(thrown[1]) = "rate_limit"
    /\ "rate_limit" \notin cfg.retryableCategories

----------------------------------------------------------------------------
(* Properties of authenticate(), checked under SpecAuth and SpecAuthFair *)

\* a /callback request without error parameter whose state is not the
\* attempt's
IsMismatch(cb) ==
    cb.path = "/callback" /\ ~cb.error /\ cb.state = "foreign"

\* C11: a callback whose state differs from the locally generated state
\* issues no token exchange and stores no credentials, closes the listener
\* and rejects the pending attempt with the state-mismatch failure; an
\* attempt whose first request is such a callback never exchanges a code and
\* never stores credentials.
C11_StateMismatchAborts ==
    /\ [](\A a \in Attempts :
            IsMismatch(au[a].firstCb)
            => /\ au[a].exchanges = 0
               /\ au[a].saves = 0
               /\ au[a].listener = "closed"
               /\ au[a].promise = "rejected"
               /\ au[a].outcome = "state_mismatch")
    /\ [][\A a \in Attempts :
            (au'[a].callbacks = au[a].callbacks + 1 /\ IsMismatch(au'[a].lastCb))
            => /\ au'[a].exchanges = au[a].exchanges
               /\ au'[a].saves = au[a].saves
               /\ store' = store
               /\ au'[a].listener = "closed"
               /\ au'[a].closeCalls = au[a].closeCalls + 1
               /\ (au[a].promise = "pending"
                   => /\ au'[a].promise = "rejected"
                      /\ au'[a].outcome = "state_mismatch")]_vars

C11_Witness ==
    /\ IsMismatch(au[1].firstCb)
    /\ au[1].callbacks = 1
    /\ au[1].outcome = "state_mismatch"
    /\ au[1].listener = "closed"

\* C12: in every authenticate() attempt server.close() is invoked at most
\* once, and once the attempt has settled it has been invoked exactly once
\* and the listener no longer holds the port.
C12_ClosedExactlyOnce ==
    \A a \in Attempts :
        /\ au[a].closeCalls <= 1
        /\ au[a].promise \in {"resolved", "rejected"}
           => /\ au[a].closeCalls = 1
              /\ au[a].listener # "bound"

\* C13: an authenticate() attempt issues at most one token-exchange request
\* and writes the credentials at most once.
C13_OneCallbackHonored ==
    \A a \in Attempts :
        /\ au[a].exchanges <= 1
        /\ au[a].saves <= 1

\* C14: an authenticate() call that fails to bind the callback port is
\* rejected with the "authentication already in progress" failure, inside
\* its own promise: the process does not die of it and the call does not
\* stay pending.
C14_BindFailureIsRejected ==
    \A a \in Attempts :
        au[a].listener = "bind_failed"
        => /\ ~crashed
           /\ au[a].promise = "rejected"
           /\ au[a].outcome = "already_in_progress"

\* C15: every authenticate() attempt eventually settles (its promise is
\* resolved or rejected); when the five-minute timer fires on a pending
\* attempt, the attempt is rejected with the timeout failure and its listener
\* is closed.
C15_AttemptSettles ==
    /\ \A a \in Attempts :
         (au[a].promise = "pending")
         ~> (au[a].promise \in {"resolved", "rejected"})
    /\ [][\A a \in Attempts :
            (au[a].timer /\ ~au'[a].timer /\ au[a].promise = "pending")
            => /\ au'[a].promise = "rejected"
               /\ au'[a].outcome = "timeout"
               /\ au'[a].listener # "bound"
               /\ nowMs' >= au[a].deadline]_vars

----------------------------------------------------------------------------
(* Properties of the classifier and the backoff, checked under SpecCalc *)

\* C16: the delay calculateRetryDelay computes for attempt k lies within
\* [0.8, 1.2] * min(baseDelay * 2^k, maxDelay), for every attempt number and
\* every retry configuration (in whole milliseconds).
C16_BackoffWithinJitterBand ==
    dcalc.called
    => LET exp == dcalc.config.baseDelay * (2 ^ dcalc.att)
           capped == IF exp < dcalc.config.maxDelay THEN exp
                     ELSE dcalc.config.maxDelay
       IN  /\ 10 * dcalc.out >= 8 * capped
           /\ 10 * dcalc.out <= 12 * capped

C16_Witness ==
    /\ dcalc.called
    /\ dcalc.att > 0
    /\ dcalc.config.baseDelay * (2 ^ dcalc.att) > dcalc.config.maxDelay
    /\ dcalc.out < dcalc.config.maxDelay
    /\ dcalc.out > 0

\* C19: for every failure parseError classifies, the retryable flag is true
\* exactly when the category is rate_limit, server or network, and failures
\* of the same shape (same kind of value, same HTTP status), whatever their
\* headers and whenever they are classified, get the same category and the
\* same retryable flag.
C19_RetryableFollowsCategory ==
    pcalc.called
    => /\ pcalc.out.retryable <=> pcalc.out.category \in RetryableCategories
       /\ \A e \in OpErrors, t \in ClassifyTimes :
            (e.type = pcalc.error.type /\ e.status = pcalc.error.status)
            => /\ parseError(e, t).category = pcalc.out.category
               /\ parseError(e, t).retryable = pcalc.out.retryable

C19_Witness ==
    /\ pcalc.called
    /\ pcalc.error.hdr.kind = "date"
    /\ pcalc.out.category = "rate_limit"
    /\ pcalc.out.retryable

----------------------------------------------------------------------------
(* Properties of the wait between attempts, checked under SpecRetry *)

\* the failure the last fn() call threw
LastThrown == thrown[Len(thrown)]

\* C17: while withRetry waits for the next attempt after a failure whose
\* classification carries a retry-after of s > 0 seconds, the wait is
\* s * 1000 milliseconds, whatever the backoff of that attempt would be; a
\* 429 response with "Retry-After: s" is such a failure.
C17_RetryAfterIsTheWait ==
    pc = "wait"
    => /\ (lastError.retryAfter.def /\ lastError.retryAfter.val > 0)
          => delay = lastError.retryAfter.val * 1000
       /\ (LastThrown.hdr.kind = "secs" /\ LastThrown.hdr.val > 0)
          => delay = LastThrown.hdr.val * 1000

C17_Witness ==
    /\ pc = "wait"
    /\ attempt = 1
    /\ LastThrown.status = 429
    /\ LastThrown.hdr = [kind |-> "secs", val |-> 2]
    /\ lastError.retryAfter = Num(2)
    /\ delay = 2000

\* C18: while withRetry waits after a 429 failure without Retry-After header,
\* the classified error has no retry-after and the wait is the exponential
\* backoff of the attempt, within its jitter band.
C18_NoSignalMeansBackoff ==
    (pc = "wait" /\ LastThrown.status = 429 /\ LastThrown.hdr.kind = "absent")
    => LET exp == cfg.baseDelay * (2 ^ attempt)
           capped == IF exp < cfg.maxDelay THEN exp ELSE cfg.maxDelay
       IN  /\ ~lastError.retryAfter.def
           /\ 10 * delay >= 8 * capped
           /\ 10 * delay <= 12 * capped

----------------------------------------------------------------------------
(* Properties of the credentials file, checked under SpecStore *)

\* C20: when loadTokens() of a store follows saveTokens(record) of a store
\* with the same base URL (on the same machine identity, nothing written in
\* between), it returns a record whose accessToken, refreshToken, expiresAt
\* and scope equal those of the saved record.
C20_SaveLoadRoundTrip ==
    (/\ saved.called
     /\ loaded.called
     /\ loaded.baseUrl = saved.baseUrl
     /\ loaded.machine = saved.machine)
    => /\ Len(loaded.result) = 1
       /\ loaded.result[1].accessToken = saved.record[1].accessToken
       /\ loaded.result[1].refreshToken = saved.record[1].refreshToken
       /\ loaded.result[1].expiresAt = saved.record[1].expiresAt
       /\ loaded.result[1].scope = saved.record[1].scope

C20_Witness ==
    /\ saved.called
    /\ loaded.called
    /\ loaded.baseUrl = saved.baseUrl
    /\ loaded.machine = saved.machine
    /\ Len(saved.record[1].accessToken) = MaxTextLen
    /\ credFile.tokens[1].accessToken # saved.record[1].accessToken
    /\ loaded.result = saved.record

\* C21: loadTokens() never throws, and it returns null when the file is
\* missing, is not parseable JSON, has another format version, holds no
\* tokens, was written for another base URL than the store's, or holds a
\* string that fails to decrypt; a record saved by a store for one base URL
\* is never returned by a store for another base URL.
C21_LoadReturnsNullOnBadFile ==
    loaded.called
    => /\ ~loaded.threw
       /\ (~credFile.exists \/ credFile.kind # "json")
          => loaded.result = <<>>
       /\ (credFile.version # 1 \/ credFile.baseUrl # loaded.baseUrl)
          => loaded.result = <<>>
       /\ credFile.tokens = <<>> => loaded.result = <<>>
       /\ (/\ credFile.tokens # <<>>
           /\ \/ ~decrypt(credFile.tokens[1].accessToken, loaded.machine).ok
              \/ ~decrypt(credFile.tokens[1].refreshToken, loaded.machine).ok)
          => loaded.result = <<>>
       /\ (saved.called /\ saved.baseUrl # loaded.baseUrl)
          => loaded.result = <<>>

C21_Witness ==
    /\ loaded.called
    /\ credFile.exists
    /\ credFile.kind = "json"
    /\ credFile.version = 1
    /\ credFile.baseUrl = loaded.baseUrl
    /\ saved.called
    /\ saved.machine # loaded.machine
    /\ ~decrypt(credFile.tokens[1].accessToken, loaded.machine).ok
    /\ loaded.result = <<>>

----------------------------------------------------------------------------
(* Properties of isAccessTokenExpired, checked under SpecCalc *)

\* C22: isAccessTokenExpired() returns true when no record is loadable or
\* when fewer than 300 seconds are left before expiresAt, and false
\* otherwise, also when exactly 300 seconds are left.
C22_ExpiredBelowBuffer ==
    ecalc.called
    => IF ecalc.file = <<>> THEN ecalc.out
       ELSE ecalc.out
            <=> (ecalc.file[1].expiresAt * 1000 - ecalc.now < 300 * 1000)

----------------------------------------------------------------------------
(* Properties of logout, checked under SpecLogout *)

\* C23: once logout() has completed it has not thrown, the credentials file
\* does not exist and a following isAuthenticated() returns false, whether
\* the revoke request succeeded, failed or no record could be loaded (the
\* file being absent included).
C23_LogoutClearsCredentials ==
    lo.pc = "done"
    => /\ ~lo.threw
       /\ ~credFile.exists
       /\ authed.called => ~authed.out

C23_Witness ==
    /\ lo.pc = "done"
    /\ lo.revokes = 1
    /\ ~lo.revokeOk
    /\ authed.called
    /\ ~credFile.exists

----------------------------------------------------------------------------
(* Properties of concurrent getAccessToken() calls, checked under SpecGat *)

\* C24: a getAccessToken() call issues a refresh request only as its first
\* step, so at most one per call, and a refresh that fails is followed by the
\* interactive flow, without another refresh request.
C24_NoRefreshRetry ==
    [][/\ refreshCount' - refreshCount =
            Cardinality({c \in Callers : /\ gatPc[c] = "idle"
                                         /\ gatPc'[c] = "refreshing"})
       /\ \A c \in Callers :
            /\ gatPc'[c] = "refreshing" => gatPc[c] \in {"idle", "refreshing"}
            /\ (gatPath[c] # "refresh_failed" /\ gatPath'[c] = "refresh_failed")
               => /\ gatPc[c] = "refreshing"
                  /\ gatPc'[c] = "authenticating"
                  /\ authCount' = authCount + 1]_vars

C24_Witness ==
    /\ gatPath[1] = "refresh_failed"
    /\ gatPc[1] = "returned"
    /\ refreshCount = 1
    /\ authCount = 1

\* C25: two concurrent getAccessToken() calls that both found the same
\* expired record and were both refreshed have each issued a refresh request
\* of their own, each returns the access token of its own refresh response,
\* and the store holds the record of the refresh that was written last.
C25_ConcurrentRefreshesBothServed ==
    (/\ gatPath[1] = "refreshed"
     /\ gatPath[2] = "refreshed"
     /\ gatTokens[1] = gatTokens[2])
    => /\ refreshCount = 2
       /\ \A c \in Callers :
            /\ gatPc[c] = "returned"
            /\ gatResult[c].token = gatResp[c].access_token
            /\ gatResult[c].token.kind = "access"
       /\ gatResult[1].token # gatResult[2].token
       /\ LET last == IF gatResp[1].access_token.n > gatResp[2].access_token.n
                      THEN 1 ELSE 2
          IN  /\ store # <<>>
              /\ store[1].accessToken = gatResp[last].access_token
              /\ store[1].refreshToken = gatResp[last].refresh_token

C25_Witness ==
    /\ gatPath[1] = "refreshed"
    /\ gatPath[2] = "refreshed"
    /\ gatTokens[1] = gatTokens[2]
    /\ gatResp[1].access_token.n = 2
    /\ gatResp[2].access_token.n = 1
    /\ store[1].accessToken = gatResult[1].token

\* C26: when of two concurrent getAccessToken() calls that both attempted a
\* refresh one was refreshed and the other has handled the failure of its
\* refresh, the record the successful refresh wrote is still in the store
\* (until the interactive flow of the failing caller saves a new one).
C26_FailedRefreshKeepsOthersRecord ==
    \A c, d \in Callers :
        (/\ gatPath[c] = "refreshed"
         /\ gatPath[d] = "refresh_failed"
         /\ gatPc[d] = "authenticating")
        => /\ store # <<>>
           /\ store[1].accessToken = gatResp[c].access_token

----------------------------------------------------------------------------
(* Properties of rejected authenticate() attempts, checked under SpecAuth *)

\* C27: an authenticate() attempt whose promise was rejected (denied, state
\* mismatch, timeout or failed exchange) has written no credential record,
\* neither before nor after the rejection; stated here for the attempts that
\* received a single callback, the case of a timeout during the exchange.
C27_RejectedAttemptSavesNothing ==
    \A a \in Attempts :
        (au[a].promise = "rejected" /\ au[a].callbacks <= 1)
        => au[a].saves = 0

----------------------------------------------------------------------------
(* Sign of the wait between attempts, checked under SpecRetry *)

\* C28: the delay withRetry computes and hands to its timer before a retry
\* is never negative, whatever failure was classified, a 429 whose
\* Retry-After is a date in the past or the value 0 included.
C28_WaitIsNonNegative ==
    pc = "wait" => delay >= 0

----------------------------------------------------------------------------
(* The progress tracker: the activeOperations map, its exported operations
   and withProgress.  updatedAt, startedAt, completedAt, result and error
   are left out: no operation reads them. *)

ProgressStatus == {"pending", "running", "completed", "failed", "cancelled"}

\* the arguments updateProgress is called with
ProgressValues == {-5, 150}

\* the update startOperation stores under a new id
startOperation ==
    [exists |-> TRUE, status |-> "running", progress |-> 0,
     message |-> "Starting", cancelled |-> FALSE]

updateProgress(operation, progress, message) ==
    IF ~operation.exists THEN operation
    ELSE IF operation.cancelled THEN operation
    ELSE [operation EXCEPT !.progress = Min(100, Max(0, progress)),
                           !.message = message]

completeOperation(operation) ==
    IF ~operation.exists THEN operation
    ELSE [operation EXCEPT !.status = "completed", !.progress = 100,
                           !.message = "Completed"]

failOperation(operation) ==
    IF ~operation.exists THEN operation
    ELSE [operation EXCEPT !.status = "failed", !.message = "Failed"]

cancelOperation(operation) ==
    IF ~operation.exists THEN operation
    ELSE IF operation.status # "running" THEN operation
    ELSE [operation EXCEPT !.cancelled = TRUE, !.status = "cancelled",
                           !.message = "Cancelled by user"]

isCancelled(operation) == operation.exists /\ operation.cancelled

\* setTimeout(() => activeOperations.delete(operationId), 60000): one more
\* timer pending when the call got past its early returns
Schedule(id, armed) ==
    /\ armed => cleanups[id] < MaxCleanups
    /\ cleanups' = [cleanups EXCEPT ![id] = @ + (IF armed THEN 1 ELSE 0)]

trackerFrame == <<retryVars, gatVars, facadeVars, nowMs, ticks, flowVars,
                  calcVars, fileVars, expVars, logoutVars, confVars>>

\* withProgress up to `await fn(...)`
WithProgress(id) ==
    /\ wp[id] = "none"
    /\ ~activeOperations[id].exists
    /\ activeOperations' = [activeOperations EXCEPT ![id] = startOperation]
    /\ wp' = [wp EXCEPT ![id] = "running"]
    /\ UNCHANGED cleanups
    /\ UNCHANGED trackerFrame

\* fn reports progress through the callback withProgress gave it
FnProgress(id) ==
    /\ wp[id] = "running"
    /\ \E p \in ProgressValues :
         activeOperations' =
             [activeOperations EXCEPT ![id] = updateProgress(@, p, "step")]
    /\ UNCHANGED <<wp, cleanups>>
    /\ UNCHANGED trackerFrame

\* fn resolves: withProgress calls completeOperation and returns the result
FnReturn(id) ==
    /\ wp[id] = "running"
    /\ activeOperations' =
           [activeOperations EXCEPT ![id] = completeOperation(@)]
    /\ Schedule(id, activeOperations[id].exists)
    /\ wp' = [wp EXCEPT ![id] = "resolved"]
    /\ UNCHANGED trackerFrame

\* fn rejects: the catch block of withProgress
FnThrow(id) ==
    /\ wp[id] = "running"
    /\ IF isCancelled(activeOperations[id])
       THEN /\ wp' = [wp EXCEPT ![id] = "rejected_cancelled"]
            /\ UNCHANGED <<activeOperations, cleanups>>
       ELSE /\ activeOperations' =
                   [activeOperations EXCEPT ![id] = failOperation(@)]
            /\ Schedule(id, activeOperations[id].exists)
            /\ wp' = [wp EXCEPT ![id] = "rejected"]
    /\ UNCHANGED trackerFrame

\* the exported operations, called by a user of the module with the id of
\* an operation that was started
UpdateProgress(id) ==
    /\ wp[id] # "none"
    /\ \E p \in ProgressValues :
         activeOperations' =
             [activeOperations EXCEPT ![id] = updateProgress(@, p, "step")]
    /\ UNCHANGED <<wp, cleanups>>
    /\ UNCHANGED trackerFrame

CompleteOperation(id) ==
    /\ wp[id] # "none"
    /\ activeOperations' =
           [activeOperations EXCEPT ![id] = completeOperation(@)]
    /\ Schedule(id, activeOperations[id].exists)
    /\ UNCHANGED wp
    /\ UNCHANGED trackerFrame

FailOperation(id) ==
    /\ wp[id] # "none"
    /\ activeOperations' = [activeOperations EXCEPT ![id] = failOperation(@)]
    /\ Schedule(id, activeOperations[id].exists)
    /\ UNCHANGED wp
    /\ UNCHANGED trackerFrame

CancelOperation(id) ==
    /\ wp[id] # "none"
    /\ activeOperations' =
           [activeOperations EXCEPT ![id] = cancelOperation(@)]
    /\ Schedule(id, /\ activeOperations[id].exists
                    /\ activeOperations[id].status = "running")
    /\ UNCHANGED wp
    /\ UNCHANGED trackerFrame

\* a delete timer fires
Cleanup(id) ==
    /\ cleanups[id] > 0
    /\ cleanups' = [cleanups EXCEPT ![id] = @ - 1]
    /\ activeOperations' = [activeOperations EXCEPT ![id] = NoOperation]
    /\ UNCHANGED wp
    /\ UNCHANGED trackerFrame

InitTracker ==
    /\ InitCommon
    /\ nowMs \in InitTimes
    /\ store = NoTokens

NextTracker ==
    \E id \in OperationIds :
        \/ WithProgress(id)
        \/ FnProgress(id)
        \/ FnReturn(id)
        \/ FnThrow(id)
        \/ UpdateProgress(id)
        \/ CompleteOperation(id)
        \/ FailOperation(id)
        \/ CancelOperation(id)
        \/ Cleanup(id)

SpecTracker == InitTracker /\ [][NextTracker]_vars

\* the statuses the tracker documents as final
TerminalStatuses == {"completed", "failed", "cancelled"}

\* C29: once an operation is COMPLETED, FAILED or CANCELLED, no step of
\* updateProgress, completeOperation, failOperation, cancelOperation or of
\* withProgress changes its status while the tracker still holds it; an
\* operation cancelled while fn runs is not COMPLETED when fn returns.
C29_TerminalStatusIsFinal ==
    [][\A id \in OperationIds :
          (/\ activeOperations[id].exists
           /\ activeOperations[id].status \in TerminalStatuses
           /\ activeOperations'[id].exists)
          => activeOperations'[id].status = activeOperations[id].status]_vars

----------------------------------------------------------------------------
(* Confirmation tokens: the pendingConfirmations map, createConfirmationRequest,
   validateConfirmation and the periodic cleanupExpiredConfirmations.  Of a
   ConfirmationRequest only operationType is kept: the other fields are
   copied from OPERATION_CONFIGS and never read back by these functions. *)

RECURSIVE TotalIssued(_)
TotalIssued(S) ==
    IF S = {} THEN 0
    ELSE LET t == CHOOSE x \in S : TRUE
         IN  issued[t].count + TotalIssued(S \ {t})

\* pendingConfirmations.set(token, {request, createdAt, expiresAt})
createConfirmationRequest(pending, operationType, now, random) ==
    [pending EXCEPT ![generateConfirmationToken(now, random)] =
        [exists |-> TRUE, operationType |-> operationType, createdAt |-> now,
         expiresAt |-> now + CONFIRMATION_TTL]]

\* the last step of validateConfirmation, pendingConfirmations.delete(token)
ConsumeKeep(pending, token) == pending
Consume(pending, token) == [pending EXCEPT ![token] = NoPending]

validateConfirmation(pending, token, expectedOperation, now) ==
    IF ~pending[token].exists
    THEN [valid |-> FALSE, error |-> "Invalid or expired confirmation token",
          pending |-> pending]
    ELSE IF now > pending[token].expiresAt
    THEN [valid |-> FALSE, error |-> "Confirmation token has expired",
          pending |-> [pending EXCEPT ![token] = NoPending]]
    ELSE IF /\ expectedOperation # NoExpected
            /\ pending[token].operationType # expectedOperation
    THEN [valid |-> FALSE,
          error |-> "Confirmation token does not match operation",
          pending |-> pending]
    ELSE [valid |-> TRUE, error |-> "", pending |-> Consume(pending, token)]

cleanupExpiredConfirmations(pending, now) ==
    [t \in Tokens |->
        IF pending[t].exists /\ now > pending[t].expiresAt
        THEN NoPending ELSE pending[t]]

confFrame == <<retryVars, gatVars, facadeVars, nowMs, ticks, flowVars,
               calcVars, fileVars, expVars, logoutVars, trackerVars>>

\* createConfirmationRequest(operationType): throws on a type that
\* OPERATION_CONFIGS lacks, stores and returns a token otherwise
CreateConfirmationRequest ==
    /\ TotalIssued(Tokens) < MaxCreates
    /\ \E operationType \in OPERATION_CONFIGS \cup {UnknownOperation},
          random \in RandomParts :
         IF operationType \notin OPERATION_CONFIGS
         THEN UNCHANGED <<pendingConfirmations, issued>>
         ELSE /\ pendingConfirmations' =
                    createConfirmationRequest(pendingConfirmations,
                                              operationType, confNow, random)
              /\ issued' =
                    [issued EXCEPT
                       ![generateConfirmationToken(confNow, random)] =
                          [count |-> @.count + 1,
                           operationType |-> operationType]]
    /\ vcall' = NoValidateCall
    /\ UNCHANGED <<confNow, accepted>>
    /\ UNCHANGED confFrame

\* the tokens callers present: those handed out so far, and one guess
PresentedTokens ==
    {t \in Tokens : issued[t].count > 0}
        \cup {generateConfirmationToken(0, 1)}

\* validateConfirmation(token, expectedOperation)
ValidateConfirmation ==
    /\ \E token \in PresentedTokens,
          expectedOperation \in OPERATION_CONFIGS \cup {NoExpected} :
         LET r == validateConfirmation(pendingConfirmations, token,
                                       expectedOperation, confNow)
         IN  /\ accepted[token] <= MaxCreates
             /\ pendingConfirmations' = r.pending
             /\ accepted' = [accepted EXCEPT
                               ![token] = @ + (IF r.valid THEN 1 ELSE 0)]
             /\ vcall' = [called |-> TRUE, token |-> token,
                          expected |-> expectedOperation, now |-> confNow,
                          valid |-> r.valid, error |-> r.error,
                          issued |-> issued[token]]
    /\ UNCHANGED <<confNow, issued>>
    /\ UNCHANGED confFrame

\* the setInterval callback
CleanupExpiredConfirmations ==
    /\ pendingConfirmations' =
           cleanupExpiredConfirmations(pendingConfirmations, confNow)
    /\ vcall' = NoValidateCall
    /\ UNCHANGED <<confNow, issued, accepted>>
    /\ UNCHANGED confFrame

\* time passes
ConfTick ==
    /\ confNow < MaxConfTicks * ConfStep
    /\ confNow' = confNow + ConfStep
    /\ vcall' = NoValidateCall
    /\ UNCHANGED <<pendingConfirmations, issued, accepted>>
    /\ UNCHANGED confFrame

InitConfirm ==
    /\ InitCommon
    /\ nowMs \in InitTimes
    /\ store = NoTokens

NextConfirm ==
    \/ CreateConfirmationRequest
    \/ ValidateConfirmation
    \/ CleanupExpiredConfirmations
    \/ ConfTick

SpecConfirm == InitConfirm /\ [][NextConfirm]_vars

\* C30: a token is found valid at most once for each time it was handed
\* out; a call that returns valid was made with a token that
\* createConfirmationRequest returned, no later than 5 minutes after the
\* time stamped into the token, and with an expected operation that is
\* either absent or the operation the token was created for.
C30_TokenSingleUseAndTimeLimited ==
    /\ \A t \in Tokens : accepted[t] <= issued[t].count
    /\ (vcall.called /\ vcall.valid)
       => /\ vcall.issued.count > 0
          /\ vcall.now <= vcall.token[1] + 300000
          /\ vcall.expected \in {"", vcall.issued.operationType}

\* a token that was handed out once was found valid once, and the latest
\* call presented it again and was refused
C30_Witness ==
    /\ vcall.called
    /\ ~vcall.valid
    /\ issued[vcall.token].count = 1
    /\ accepted[vcall.token] = 1

====
